---- MODULE Spec2Model ----
(***************************************************************************)
(* CodeSandbox (backend/sandbox.py): execution of a submitted snippet in a *)
(* Docker container or, as fallback, in a host subprocess.                 *)
(*                                                                         *)
(* Python values are tagged records (Absent is a key missing from a dict), *)
(* text is a sequence of one-character strings.                            *)
(***************************************************************************)
EXTENDS Integers, Sequences, FiniteSets, TLC

\* ------------------------------------------------------------------ bounds
NumCalls == 2

Calls == 1..NumCalls

\* self.timeout, in seconds
timeout == 5

\* the language identifiers a request may carry (main.py lower-cases them)
Languages == {"python", "javascript", "ruby"}

\* ------------------------------------------------------- Python values
Absent == [tag |-> "absent", s |-> <<>>, n |-> 0, b |-> FALSE]

PyNone == [tag |-> "None", s |-> <<>>, n |-> 0, b |-> FALSE]

PyStr(t) == [tag |-> "str", s |-> t, n |-> 0, b |-> FALSE]

PyInt(k) == [tag |-> "int", s |-> <<>>, n |-> k, b |-> FALSE]

PyBool(x) == [tag |-> "bool", s |-> <<>>, n |-> 0, b |-> x]

\* the dict before any key is set
EmptyDict ==
    [output |-> Absent, error |-> Absent, executed_successfully |-> Absent,
     line |-> Absent, mode |-> Absent]

\* ------------------------------------------- string literals of sandbox.py
UNSUPPORTED_LANGUAGE ==
    <<"U", "n", "s", "u", "p", "p", "o", "r", "t", "e", "d", " ", "l", "a", "n", "g", "u", "a", "g", "e">>

TIMEOUT_5S ==
    <<"E", "x", "e", "c", "u", "t", "i", "o", "n", " ", "t", "i", "m", "e", "o", "u", "t", " ", "(", "5", "s", " ", "l", "i", "m", "i", "t", ")">>

TIMEOUT_PLAIN ==
    <<"E", "x", "e", "c", "u", "t", "i", "o", "n", " ", "t", "i", "m", "e", "o", "u", "t">>

NODE_NOT_INSTALLED ==
    <<"N", "o", "d", "e", ".", "j", "s", " ", "n", "o", "t", " ", "i", "n", "s", "t", "a", "l", "l", "e", "d">>

EXECUTION_ERROR ==
    <<"E", "x", "e", "c", "u", "t", "i", "o", "n", " ", "e", "r", "r", "o", "r", ":", " ">>

DOCKER_ERROR ==
    <<"D", "o", "c", "k", "e", "r", " ", "e", "r", "r", "o", "r", ":", " ">>

UNKNOWN_ERROR ==
    <<"U", "n", "k", "n", "o", "w", "n", " ", "e", "r", "r", "o", "r">>

MODE_SUBPROCESS ==
    <<"s", "u", "b", "p", "r", "o", "c", "e", "s", "s">>

MODE_DOCKER ==
    <<"d", "o", "c", "k", "e", "r">>

LINE_PREFIX ==
    <<"l", "i", "n", "e", " ">>

\* ------------------------- str(e) of the exceptions the environment raises
MSG_ENOENT_PYTHON ==
    <<"[", "E", "r", "r", "n", "o", " ", "2", "]", " ", "N", "o", " ", "s", "u", "c", "h", " ", "f", "i", "l", "e", ":", " ", "'", "p", "y", "t", "h", "o", "n", "'">>

MSG_ENOSPC ==
    <<"[", "E", "r", "r", "n", "o", " ", "2", "8", "]", " ", "N", "o", " ", "s", "p", "a", "c", "e", " ", "l", "e", "f", "t">>

MSG_DECODE ==
    <<"'", "u", "t", "f", "-", "8", "'", " ", "c", "o", "d", "e", "c", " ", "c", "a", "n", "'", "t", " ", "d", "e", "c", "o", "d", "e", " ", "b", "y", "t", "e">>

MSG_API ==
    <<"5", "0", "0", " ", "S", "e", "r", "v", "e", "r", " ", "E", "r", "r", "o", "r">>

MSG_NOTFOUND ==
    <<"4", "0", "4", " ", "C", "l", "i", "e", "n", "t", " ", "E", "r", "r", "o", "r">>

MSG_READ_TIMEOUT ==
    <<"R", "e", "a", "d", " ", "t", "i", "m", "e", "d", " ", "o", "u", "t", ".">>

\* ------------------------------ texts a snippet writes to stdout / stderr
T_empty ==
    <<>>

T_hello ==
    <<"h", "i", "\n">>

T_oneline ==
    <<"E">>

T_trace ==
    <<"a", ",", " ", "l", "i", "n", "e", " ", "3", "\n", "E", "\n">>

T_blank ==
    <<" ", "\n">>

\* ------------------------------------------------------ text operations
Whitespace == {" ", "\n", "\t", "\r"}

Digits == {"0", "1", "2", "3", "4", "5", "6", "7", "8", "9"}

DigitVal(ch) ==
    CASE ch = "0" -> 0 [] ch = "1" -> 1 [] ch = "2" -> 2 [] ch = "3" -> 3
      [] ch = "4" -> 4 [] ch = "5" -> 5 [] ch = "6" -> 6 [] ch = "7" -> 7
      [] ch = "8" -> 8 [] ch = "9" -> 9

\* str.strip(): drop leading and trailing whitespace
RECURSIVE LStrip(_)
LStrip(t) ==
    IF t # <<>> /\ Head(t) \in Whitespace THEN LStrip(Tail(t)) ELSE t

RECURSIVE RStrip(_)
RStrip(t) ==
    IF t # <<>> /\ t[Len(t)] \in Whitespace
    THEN RStrip(SubSeq(t, 1, Len(t) - 1))
    ELSE t

Strip(t) == RStrip(LStrip(t))

\* str.split('\n'): always at least one piece, "".split('\n') == ['']
RECURSIVE Split(_)
Split(t) ==
    IF \E i \in 1..Len(t) : t[i] = "\n"
    THEN LET i == CHOOSE k \in 1..Len(t) :
                     t[k] = "\n" /\ \A m \in 1..(k - 1) : t[m] # "\n"
         IN  <<SubSeq(t, 1, i - 1)>> \o Split(SubSeq(t, i + 1, Len(t)))
    ELSE <<t>>

\* int() of a non-empty run of decimal digits
RECURSIVE ToInt(_)
ToInt(ds) ==
    IF ds = <<>> THEN 0
    ELSE 10 * ToInt(SubSeq(ds, 1, Len(ds) - 1)) + DigitVal(ds[Len(ds)])

\* re.search(r'line (\d+)', t) matches at position i
MatchAt(t, i) ==
    /\ i + Len(LINE_PREFIX) <= Len(t)
    /\ SubSeq(t, i, i + Len(LINE_PREFIX) - 1) = LINE_PREFIX
    /\ t[i + Len(LINE_PREFIX)] \in Digits

\* group(1) of the match at i: the longest run of digits (\d+ is greedy)
Group1(t, i) ==
    LET from == i + Len(LINE_PREFIX)
        to == CHOOSE k \in from..Len(t) :
                  /\ \A m \in from..k : t[m] \in Digits
                  /\ (k = Len(t) \/ t[k + 1] \notin Digits)
    IN  SubSeq(t, from, to)

parse_python_error(logs) ==
    IF logs = <<>> THEN UNKNOWN_ERROR
    ELSE LET lines == Split(Strip(logs))
         IN  IF lines # <<>> THEN lines[Len(lines)] ELSE UNKNOWN_ERROR

\* the last match instead of the first
extract_error_line_last(logs) ==
    IF logs = <<>> THEN PyNone
    ELSE IF \E i \in 1..Len(logs) : MatchAt(logs, i)
         THEN LET i == CHOOSE k \in 1..Len(logs) :
                          MatchAt(logs, k) /\ \A m \in (k + 1)..Len(logs) : ~MatchAt(logs, m)
              IN  PyInt(ToInt(Group1(logs, i)))
         ELSE PyNone

\* re.search returns the leftmost match
extract_error_line(logs) ==
    IF logs = <<>> THEN PyNone
    ELSE IF \E i \in 1..Len(logs) : MatchAt(logs, i)
         THEN LET i == CHOOSE k \in 1..Len(logs) :
                          MatchAt(logs, k) /\ \A m \in 1..(k - 1) : ~MatchAt(logs, m)
              IN  PyInt(ToInt(Group1(logs, i)))
         ELSE PyNone

\* ------------------------------------------------- the dicts returned
\* x or y on strings: the empty string is falsy
StrOr(x, y) == IF x # <<>> THEN x ELSE y

UnsupportedResult ==
    [EmptyDict EXCEPT !.error = PyStr(UNSUPPORTED_LANGUAGE), !.output = PyStr(<<>>)]

TopLevelResult(msg) ==
    [EmptyDict EXCEPT !.error = PyStr(msg), !.output = PyStr(<<>>)]

FailureResult(msg, mode) ==
    [EmptyDict EXCEPT !.error = PyStr(msg), !.output = PyStr(<<>>),
                      !.executed_successfully = PyBool(FALSE),
                      !.mode = PyStr(mode)]

PythonSubprocessResult(returncode, stdout, stderr) ==
    IF returncode = 0
    THEN [EmptyDict EXCEPT !.output = PyStr(stdout), !.error = PyNone,
                           !.executed_successfully = PyBool(TRUE),
                           !.mode = PyStr(MODE_SUBPROCESS)]
    ELSE [EmptyDict EXCEPT !.output = PyStr(stdout),
                           !.error = PyStr(StrOr(stderr, parse_python_error(stderr))),
                           !.executed_successfully = PyBool(FALSE),
                           !.line = extract_error_line(stderr),
                           !.mode = PyStr(MODE_SUBPROCESS)]

JavascriptSubprocessResult(returncode, stdout, stderr) ==
    [EmptyDict EXCEPT !.output = PyStr(stdout),
                      !.error = IF returncode # 0 THEN PyStr(stderr) ELSE PyNone,
                      !.executed_successfully = PyBool(returncode = 0),
                      !.mode = PyStr(MODE_SUBPROCESS)]

PythonDockerResult(StatusCode, logs) ==
    IF StatusCode = 0
    THEN [EmptyDict EXCEPT !.output = PyStr(logs), !.error = PyNone,
                           !.executed_successfully = PyBool(TRUE),
                           !.mode = PyStr(MODE_DOCKER)]
    ELSE [EmptyDict EXCEPT !.output = PyStr(logs),
                           !.error = PyStr(parse_python_error(logs)),
                           !.executed_successfully = PyBool(FALSE),
                           !.line = extract_error_line(logs),
                           !.mode = PyStr(MODE_DOCKER)]

JavascriptDockerResult(StatusCode, logs) ==
    [EmptyDict EXCEPT !.output = PyStr(logs),
                      !.error = IF StatusCode # 0 THEN PyStr(logs) ELSE PyNone,
                      !.executed_successfully = PyBool(StatusCode = 0),
                      !.mode = PyStr(MODE_DOCKER)]

\* the driver execute_code dispatches to
Driver(lang, docker) ==
    CASE lang = "python" /\ docker -> "python_docker"
      [] lang = "python" /\ ~docker -> "python_subprocess"
      [] lang = "javascript" /\ docker -> "javascript_docker"
      [] lang = "javascript" /\ ~docker -> "javascript_subprocess"
      [] OTHER -> "none"

IsDocker(fn) == fn \in {"python_docker", "javascript_docker"}

ModeOf(fn) == IF IsDocker(fn) THEN MODE_DOCKER ELSE MODE_SUBPROCESS

CompletedResult(fn, code, out, err) ==
    CASE fn = "python_subprocess" -> PythonSubprocessResult(code, out, err)
      [] fn = "javascript_subprocess" -> JavascriptSubprocessResult(code, out, err)
      [] fn = "python_docker" -> PythonDockerResult(code, out)
      [] fn = "javascript_docker" -> JavascriptDockerResult(code, out)

TimeoutResult(fn) ==
    IF fn \in {"python_subprocess", "python_docker"}
    THEN FailureResult(TIMEOUT_5S, ModeOf(fn))
    ELSE FailureResult(TIMEOUT_PLAIN, ModeOf(fn))

OuterExceptResult(fn, msg) ==
    FailureResult((IF IsDocker(fn) THEN DOCKER_ERROR ELSE EXECUTION_ERROR) \o msg,
                  ModeOf(fn))

\* ------------------------------------------------ exceptions and handlers
\* every exception the calls below raise is a subclass of Exception
ExceptionClasses ==
    {"TimeoutExpired", "FileNotFoundError", "OSError", "UnicodeDecodeError",
     "ReadTimeout", "APIError", "NotFound"}

ExcMsg(exc) ==
    CASE exc = "FileNotFoundError" -> MSG_ENOENT_PYTHON
      [] exc = "OSError" -> MSG_ENOSPC
      [] exc = "UnicodeDecodeError" -> MSG_DECODE
      [] exc = "APIError" -> MSG_API
      [] exc = "NotFound" -> MSG_NOTFOUND
      [] OTHER -> MSG_READ_TIMEOUT

\* the statements inside the inner try of a driver
InnerTry == {"run", "wait", "logs"}

\* the except clause of the inner try that takes exc ("none": it passes on)
InnerExcept(fn, exc) ==
    CASE fn = "python_subprocess" /\ exc = "TimeoutExpired" -> "except_TimeoutExpired"
      [] fn = "javascript_subprocess" /\ exc = "TimeoutExpired" -> "except_TimeoutExpired"
      [] fn = "javascript_subprocess" /\ exc = "FileNotFoundError" -> "except_FileNotFoundError"
      [] IsDocker(fn) -> "bare_except"
      [] OTHER -> "none"

HandlerUncaught(fn, site, exc) ==
    IF site \in InnerTry /\ InnerExcept(fn, exc) # "none"
    THEN InnerExcept(fn, exc)
    ELSE "uncaught"

\* where an exception raised at site of driver fn lands: the inner except
\* clauses, the driver's "except Exception", execute_code's "except Exception"
Handler(fn, site, exc) ==
    IF site \in InnerTry /\ InnerExcept(fn, exc) # "none"
    THEN InnerExcept(fn, exc)
    ELSE IF exc \in ExceptionClasses THEN "outer_except"
    ELSE IF exc \in ExceptionClasses THEN "execute_code_except"
    ELSE "uncaught"

\* what the handler does: the next position of the call, the dict it returns
\* and whether it unlinks the temp file
Caught(fn, site, exc) ==
    LET h == Handler(fn, site, exc)
    IN  CASE h = "except_TimeoutExpired" ->
                [pc |-> "returned", result |-> TimeoutResult(fn), unlink |-> TRUE]
          [] h = "except_FileNotFoundError" ->
                [pc |-> "returned",
                 result |-> FailureResult(NODE_NOT_INSTALLED, MODE_SUBPROCESS),
                 unlink |-> FALSE]
          [] h = "bare_except" ->
                [pc |-> "stop", result |-> EmptyDict, unlink |-> FALSE]
          [] h = "outer_except" ->
                [pc |-> "returned", result |-> OuterExceptResult(fn, ExcMsg(exc)),
                 unlink |-> FALSE]
          [] h = "execute_code_except" ->
                [pc |-> "returned", result |-> TopLevelResult(ExcMsg(exc)),
                 unlink |-> FALSE]
          [] OTHER ->
                [pc |-> "raised", result |-> EmptyDict, unlink |-> FALSE]

\* ----------------------------------------------------------------- state
VARIABLES
    docker_available,  \* self.docker_available
    handshake,         \* how the probe of the docker backend in __init__ went
    pc,                \* position of each execute_code call
    language,          \* the language argument of each call
    temp_file,         \* temp_file of each call (0: not created)
    files,             \* names existing in the host temp directory
    child,             \* the process subprocess.run spawned for the call
    desc,              \* a process the snippet itself spawned
    container,         \* the container of the call
    exit_status,       \* returncode / StatusCode of the snippet
    streams,           \* what the snippet wrote: stdout (or logs), stderr
    result,            \* the dict the call returned
    event,             \* what happened to the call in its environment
    logs,              \* the text handed to the two parsers of a driver
    parsed,            \* what the driver made of it
    patterns,          \* pattern_learner.patterns
    stats,             \* pattern_learner.stats
    handled,           \* number of /analyze requests handled so far
    response           \* what the last /analyze request was answered

\* the variables outside the sandbox calls
parser_vars == <<logs, parsed>>

analyze_vars == <<patterns, stats, handled, response>>

outside_sandbox == <<parser_vars, analyze_vars>>

vars ==
    <<docker_available, handshake, pc, language, temp_file, files, child, desc,
      container, exit_status, streams, result, event, logs, parsed,
      patterns, stats, handled, response>>

FileNames == 1..NumCalls

\* what a snippet can do when it runs to its end: exit code, stdout, stderr
Snippets ==
    {[rc |-> 0, out |-> T_hello, err |-> T_empty],
     [rc |-> 0, out |-> T_empty, err |-> T_oneline],
     [rc |-> 1, out |-> T_empty, err |-> T_trace],
     [rc |-> 1, out |-> T_hello, err |-> T_oneline],
     [rc |-> 1, out |-> T_empty, err |-> T_empty],
     [rc |-> 1, out |-> T_empty, err |-> T_blank]}

\* the same inside a container: StatusCode and the combined logs
ContainerSnippets ==
    {[rc |-> 0, out |-> T_hello],
     [rc |-> 1, out |-> T_trace],
     [rc |-> 1, out |-> T_empty]}

Done == {"returned", "raised"}

Fn(c) == Driver(language[c], docker_available)

\* docker mode although from_env() / ping() raised
SelectModeNoProbe(DOCKER_AVAILABLE, ping_ok) == DOCKER_AVAILABLE

\* __init__: docker mode iff the docker module imports and from_env() and
\* ping() succeed
SelectMode(DOCKER_AVAILABLE, ping_ok) == DOCKER_AVAILABLE /\ ping_ok

SandboxInit ==
    /\ \E DOCKER_AVAILABLE \in BOOLEAN, ping_ok \in BOOLEAN :
           /\ docker_available = SelectMode(DOCKER_AVAILABLE, ping_ok)
           /\ handshake = IF ~DOCKER_AVAILABLE THEN "no_module"
                          ELSE IF ping_ok THEN "ok" ELSE "unreachable"
    /\ pc = [c \in Calls |-> "idle"]
    /\ language = [c \in Calls |-> "none"]
    /\ temp_file = [c \in Calls |-> 0]
    /\ files = {}
    /\ child = [c \in Calls |-> "none"]
    /\ desc = [c \in Calls |-> "none"]
    /\ container = [c \in Calls |-> "none"]
    /\ exit_status = [c \in Calls |-> 0]
    /\ streams = [c \in Calls |-> [stdout |-> T_empty, stderr |-> T_empty]]
    /\ result = [c \in Calls |-> EmptyDict]
    /\ event = [c \in Calls |-> {}]

\* no driver has built a dict yet
NotParsed ==
    [called |-> FALSE, returncode |-> 0, summary |-> <<>>, line |-> PyNone,
     executed_successfully |-> PyNone]

\* PatternLearner.__init__
NoPatterns == <<>>

ZeroStats == [total_analyzed |-> 0, total_issues_found |-> 0, patterns_learned |-> 0]

\* no request was answered yet
NoResponse ==
    [status |-> 0, detected_language |-> "", is_executable |-> FALSE,
     sandbox_invocations |-> 0, sandbox_result |-> EmptyDict, issues |-> <<>>,
     executionResult |-> [is_none |-> TRUE, dict |-> EmptyDict], patterns |-> <<>>]

LearnerInit ==
    /\ patterns = NoPatterns
    /\ stats = ZeroStats
    /\ handled = 0
    /\ response = NoResponse

Init ==
    /\ SandboxInit
    /\ logs = T_empty
    /\ parsed = NotParsed
    /\ LearnerInit

\* execute_code never suspends (subprocess.run and the docker client block),
\* so the event loop runs one call at a time, in order of arrival
EventLoopFree(c) ==
    /\ \A d \in Calls : pc[d] \in Done \cup {"idle"}
    /\ \A d \in Calls : d < c => pc[d] \in Done

\* leave the call through the handler of exc raised at site
Raise(c, site, exc) ==
    LET h == Caught(Fn(c), site, exc)
    IN  /\ pc' = [pc EXCEPT ![c] = h.pc]
        /\ result' = [result EXCEPT ![c] = h.result]
        /\ files' = IF h.unlink THEN files \ {temp_file[c]} ELSE files

execute_code(c, lang) ==
    /\ pc[c] = "idle"
    /\ EventLoopFree(c)
    /\ language' = [language EXCEPT ![c] = lang]
    /\ IF Driver(lang, docker_available) = "none"
       THEN /\ pc' = [pc EXCEPT ![c] = "returned"]
            /\ result' = [result EXCEPT ![c] = UnsupportedResult]
            /\ event' = [event EXCEPT ![c] = {"unsupported"}]
       ELSE /\ pc' = [pc EXCEPT ![c] = "mktemp"]
            /\ UNCHANGED <<result, event>>
    /\ UNCHANGED <<docker_available, handshake, temp_file, files, child, desc, container,
                   exit_status, streams>>
    /\ UNCHANGED outside_sandbox

\* one fixed file name for every call
FixedName(existing) == 1

\* the name mkstemp picks: one that does not exist in the directory (names
\* are interchangeable, the model takes the first free one)
FreshName(existing) ==
    CHOOSE name \in FileNames \ existing :
        \A other \in FileNames \ existing : name <= other

\* names handed out so far: mkstemp draws random names, a name is not
\* modelled to come back after its file was deleted
NamesUsed == {temp_file[d] : d \in Calls}

\* tempfile.NamedTemporaryFile(delete=False) + f.write(code)
NamedTemporaryFile(c) ==
    /\ pc[c] = "mktemp"
    /\ files' = files \cup {FreshName(files \cup NamesUsed)}
    /\ temp_file' = [temp_file EXCEPT ![c] = FreshName(files \cup NamesUsed)]
    /\ pc' = [pc EXCEPT ![c] = IF IsDocker(Fn(c)) THEN "containers_run" ELSE "run"]
    /\ UNCHANGED <<docker_available, handshake, language, child, desc, container,
                   exit_status, streams, result, event>>
    /\ UNCHANGED outside_sandbox

\* the temp directory is not writable or full: OSError, no file is left
NamedTemporaryFileFails(c) ==
    /\ pc[c] = "mktemp"
    /\ Raise(c, "mktemp", "OSError")
    /\ event' = [event EXCEPT ![c] = {"mktemp_failed"}]
    /\ UNCHANGED <<docker_available, handshake, language, temp_file, child, desc, container,
                   exit_status, streams>>
    /\ UNCHANGED outside_sandbox

\* --------------------------------------------------- subprocess drivers
\* subprocess.run returns: the child exited within the timeout; then
\* os.unlink(temp_file) and the dict for the returncode
SubprocessCompleted(c) ==
    /\ pc[c] = "run"
    /\ \E s \in Snippets, forks \in BOOLEAN :
           /\ child' = [child EXCEPT ![c] = "exited"]
           /\ desc' = [desc EXCEPT ![c] = IF forks THEN "alive" ELSE "none"]
           /\ exit_status' = [exit_status EXCEPT ![c] = s.rc]
           /\ streams' = [streams EXCEPT ![c] = [stdout |-> s.out, stderr |-> s.err]]
           /\ result' = [result EXCEPT ![c] = CompletedResult(Fn(c), s.rc, s.out, s.err)]
           /\ event' = [event EXCEPT ![c] = {IF s.rc = 0 THEN "exit0" ELSE "nonzero"}]
    /\ files' = files \ {temp_file[c]}
    /\ pc' = [pc EXCEPT ![c] = "returned"]
    /\ UNCHANGED <<docker_available, handshake, language, temp_file, container>>
    /\ UNCHANGED outside_sandbox

\* subprocess.run raises TimeoutExpired: it has killed and reaped the child
\* it spawned, and nothing else
SubprocessTimeoutExpired(c) ==
    /\ pc[c] = "run"
    /\ child' = [child EXCEPT ![c] = "killed"]
    /\ \E forks \in BOOLEAN :
           desc' = [desc EXCEPT ![c] = IF forks THEN "alive" ELSE "none"]
    /\ Raise(c, "run", "TimeoutExpired")
    /\ event' = [event EXCEPT ![c] = {"timeout"}]
    /\ UNCHANGED <<docker_available, handshake, language, temp_file, container,
                   exit_status, streams>>
    /\ UNCHANGED outside_sandbox

\* what the stdin of the server process can be: a terminal or pipe nobody
\* writes to, or a stream at end of file (/dev/null, a closed pipe)
ServerStdin == {"open", "eof"}

\* the snippet reads from stdin before anything else. subprocess.run is
\* called without stdin= or input=, so the child inherits the stdin of the
\* server: at end of file the read fails at once (traceback, exit code 1),
\* on an open stream it blocks until subprocess.run gives up
SubprocessReadsStdin(c) ==
    /\ pc[c] = "run"
    /\ \E stdin \in ServerStdin :
           IF stdin = "eof"
           THEN /\ child' = [child EXCEPT ![c] = "exited"]
                /\ exit_status' = [exit_status EXCEPT ![c] = 1]
                /\ streams' = [streams EXCEPT ![c] =
                                   [stdout |-> T_empty, stderr |-> T_trace]]
                /\ result' = [result EXCEPT ![c] =
                                  CompletedResult(Fn(c), 1, T_empty, T_trace)]
                /\ event' = [event EXCEPT ![c] = {"reads_stdin", "nonzero"}]
                /\ files' = files \ {temp_file[c]}
                /\ pc' = [pc EXCEPT ![c] = "returned"]
           ELSE /\ child' = [child EXCEPT ![c] = "killed"]
                /\ Raise(c, "run", "TimeoutExpired")
                /\ event' = [event EXCEPT ![c] = {"reads_stdin", "timeout"}]
                /\ UNCHANGED <<exit_status, streams>>
    /\ UNCHANGED <<docker_available, handshake, language, temp_file, desc, container>>
    /\ UNCHANGED outside_sandbox

\* subprocess.run raises FileNotFoundError: no 'python' / 'node' on PATH
SubprocessFileNotFound(c) ==
    /\ pc[c] = "run"
    /\ Raise(c, "run", "FileNotFoundError")
    /\ event' = [event EXCEPT ![c] = {"missing"}]
    /\ UNCHANGED <<docker_available, handshake, language, temp_file, child, desc, container,
                   exit_status, streams>>
    /\ UNCHANGED outside_sandbox

\* subprocess.run raises something else after the child ran, e.g.
\* UnicodeDecodeError decoding the captured output (text=True)
SubprocessOtherException(c) ==
    /\ pc[c] = "run"
    /\ child' = [child EXCEPT ![c] = "exited"]
    /\ Raise(c, "run", "UnicodeDecodeError")
    /\ event' = [event EXCEPT ![c] = {"run_exception"}]
    /\ UNCHANGED <<docker_available, handshake, language, temp_file, desc, container,
                   exit_status, streams>>
    /\ UNCHANGED outside_sandbox

\* a process the snippet left behind ends by itself
DescendantExits(c) ==
    /\ desc[c] = "alive"
    /\ desc' = [desc EXCEPT ![c] = "none"]
    /\ UNCHANGED <<docker_available, handshake, pc, language, temp_file, files, child,
                   container, exit_status, streams, result, event>>
    /\ UNCHANGED outside_sandbox

\* ------------------------------------------------------- docker drivers
\* client.containers.run(..., detach=True, remove=True)
ContainersRun(c) ==
    /\ pc[c] = "containers_run"
    /\ container' = [container EXCEPT ![c] = "running"]
    /\ pc' = [pc EXCEPT ![c] = "wait"]
    /\ UNCHANGED <<docker_available, handshake, language, temp_file, files, child, desc,
                   exit_status, streams, result, event>>
    /\ UNCHANGED outside_sandbox

\* containers.run raises (image missing, daemon error): nothing was started
ContainersRunFails(c) ==
    /\ pc[c] = "containers_run"
    /\ Raise(c, "containers_run", "APIError")
    /\ event' = [event EXCEPT ![c] = {"start_failed"}]
    /\ UNCHANGED <<docker_available, handshake, language, temp_file, child, desc, container,
                   exit_status, streams>>
    /\ UNCHANGED outside_sandbox

\* the snippet ends inside its container; what it did (StatusCode, logs) is
\* drawn when wait() and logs() read it
ContainerExits(c) ==
    /\ container[c] = "running"
    /\ container' = [container EXCEPT ![c] = "exited"]
    /\ UNCHANGED <<docker_available, handshake, pc, language, temp_file, files, child, desc,
                   exit_status, streams, result, event>>
    /\ UNCHANGED outside_sandbox

\* remove=True: the daemon removes the container once it has exited
AutoRemove(c) ==
    /\ container[c] = "exited"
    /\ container' = [container EXCEPT ![c] = "removed"]
    /\ UNCHANGED <<docker_available, handshake, pc, language, temp_file, files, child, desc,
                   exit_status, streams, result, event>>
    /\ UNCHANGED outside_sandbox

\* container.wait(timeout=self.timeout): the request reaches the daemon;
\* 404 when the container is already gone
ContainerWaitBegins(c) ==
    /\ pc[c] = "wait"
    /\ IF container[c] = "removed"
       THEN /\ Raise(c, "wait", "NotFound")
            /\ event' = [event EXCEPT ![c] = @ \cup {"wait_notfound"}]
       ELSE /\ pc' = [pc EXCEPT ![c] = "waiting"]
            /\ UNCHANGED <<result, files, event>>
    /\ UNCHANGED <<docker_available, handshake, language, temp_file, child, desc, container,
                   exit_status, streams>>
    /\ UNCHANGED outside_sandbox

\* wait returns the StatusCode of the exited container
ContainerWaitReturns(c) ==
    /\ pc[c] = "waiting"
    /\ container[c] \in {"exited", "removed"}
    /\ \E s \in ContainerSnippets :
           exit_status' = [exit_status EXCEPT ![c] = s.rc]
    /\ pc' = [pc EXCEPT ![c] = "logs"]
    /\ UNCHANGED <<docker_available, handshake, language, temp_file, files, child, desc,
                   container, streams, result, event>>
    /\ UNCHANGED outside_sandbox

\* wait() without a timeout: it never gives up on a running container
ContainerWaitForever(c) ==
    /\ pc[c] = "waiting"
    /\ container[c] = "running"
    /\ FALSE
    /\ UNCHANGED vars

\* the container is still running when the timeout expires
ContainerWaitTimeout(c) ==
    /\ pc[c] = "waiting"
    /\ container[c] = "running"
    /\ Raise(c, "wait", "ReadTimeout")
    /\ event' = [event EXCEPT ![c] = @ \cup {"timeout"}]
    /\ UNCHANGED <<docker_available, handshake, language, temp_file, child, desc, container,
                   exit_status, streams>>
    /\ UNCHANGED outside_sandbox

\* a backend failure while waiting switches the sandbox to subprocess mode
ContainerWaitBackendFailureFallback(c) ==
    /\ pc[c] \in {"wait", "waiting"}
    /\ Raise(c, "wait", "APIError")
    /\ event' = [event EXCEPT ![c] = @ \cup {"wait_failed"}]
    /\ docker_available' = FALSE
    /\ UNCHANGED <<handshake, language, temp_file, child, desc, container,
                   exit_status, streams>>
    /\ UNCHANGED outside_sandbox

\* the daemon fails or the connection is lost while waiting
ContainerWaitBackendFailure(c) ==
    /\ pc[c] \in {"wait", "waiting"}
    /\ Raise(c, "wait", "APIError")
    /\ event' = [event EXCEPT ![c] = @ \cup {"wait_failed"}]
    /\ UNCHANGED <<docker_available, handshake, language, temp_file, child, desc, container,
                   exit_status, streams>>
    /\ UNCHANGED outside_sandbox

\* container.logs() succeeds; then os.unlink(temp_file) and the dict for
\* the StatusCode
ContainerLogs(c) ==
    /\ pc[c] = "logs"
    /\ container[c] = "exited"
    /\ \E s \in ContainerSnippets :
           /\ s.rc = exit_status[c]
           /\ streams' = [streams EXCEPT ![c] = [stdout |-> s.out, stderr |-> T_empty]]
           /\ result' = [result EXCEPT ![c] =
                             CompletedResult(Fn(c), exit_status[c], s.out, T_empty)]
    /\ files' = files \ {temp_file[c]}
    /\ event' = [event EXCEPT ![c] =
                     @ \cup {IF exit_status[c] = 0 THEN "exit0" ELSE "nonzero"}]
    /\ pc' = [pc EXCEPT ![c] = "returned"]
    /\ UNCHANGED <<docker_available, handshake, language, temp_file, child, desc, container,
                   exit_status>>
    /\ UNCHANGED outside_sandbox

\* container.logs() raises: 404 for a removed container, or a daemon failure
ContainerLogsFails(c) ==
    /\ pc[c] = "logs"
    /\ \/ /\ container[c] = "removed"
          /\ Raise(c, "logs", "NotFound")
          /\ event' = [event EXCEPT ![c] = @ \cup {"logs_notfound"}]
       \/ /\ Raise(c, "logs", "APIError")
          /\ event' = [event EXCEPT ![c] = @ \cup {"logs_failed"}]
    /\ UNCHANGED <<docker_available, handshake, language, temp_file, child, desc, container,
                   exit_status, streams>>
    /\ UNCHANGED outside_sandbox

\* the bare except: container.stop() succeeds, the timeout dict is returned
ContainerStop(c) ==
    /\ pc[c] = "stop"
    /\ container[c] \in {"running", "exited"}
    /\ container' = [container EXCEPT ![c] = "exited"]
    /\ result' = [result EXCEPT ![c] = TimeoutResult(Fn(c))]
    /\ event' = [event EXCEPT ![c] = @ \cup {"stopped"}]
    /\ pc' = [pc EXCEPT ![c] = "returned"]
    /\ UNCHANGED <<docker_available, handshake, language, temp_file, files, child, desc,
                   exit_status, streams>>
    /\ UNCHANGED outside_sandbox

\* container.stop() raises inside the bare except: 404 for a removed
\* container, or a daemon failure; the driver's except Exception takes it
ContainerStopFails(c) ==
    /\ pc[c] = "stop"
    /\ \/ /\ container[c] = "removed"
          /\ Raise(c, "stop", "NotFound")
          /\ event' = [event EXCEPT ![c] = @ \cup {"stop_notfound"}]
       \/ /\ Raise(c, "stop", "APIError")
          /\ event' = [event EXCEPT ![c] = @ \cup {"stop_failed"}]
    /\ UNCHANGED <<docker_available, handshake, language, temp_file, child, desc, container,
                   exit_status, streams>>
    /\ UNCHANGED outside_sandbox

Next ==
    \E c \in Calls :
        \/ \E lang \in Languages : execute_code(c, lang)
        \/ NamedTemporaryFile(c)
        \/ NamedTemporaryFileFails(c)
        \/ SubprocessCompleted(c)
        \/ SubprocessTimeoutExpired(c)
        \/ SubprocessReadsStdin(c)
        \/ SubprocessFileNotFound(c)
        \/ SubprocessOtherException(c)
        \/ DescendantExits(c)
        \/ ContainersRun(c)
        \/ ContainersRunFails(c)
        \/ ContainerExits(c)
        \/ AutoRemove(c)
        \/ ContainerWaitBegins(c)
        \/ ContainerWaitReturns(c)
        \/ ContainerWaitTimeout(c)
        \/ ContainerWaitBackendFailure(c)
        \/ ContainerLogs(c)
        \/ ContainerLogsFails(c)
        \/ ContainerStop(c)
        \/ ContainerStopFails(c)

Spec == Init /\ [][Next]_vars

\* the steps of a call that need no fault of the host or the backend: every
\* blocking call returns, or gives up at its timeout
Progress(c) ==
    \/ NamedTemporaryFile(c)
    \/ SubprocessCompleted(c)
    \/ SubprocessTimeoutExpired(c)
    \/ ContainersRun(c)
    \/ ContainerWaitBegins(c)
    \/ ContainerWaitReturns(c)
    \/ ContainerWaitTimeout(c)
    \/ ContainerLogs(c)
    \/ (ContainerLogsFails(c) /\ container[c] = "removed")
    \/ ContainerStop(c)
    \/ (ContainerStopFails(c) /\ container[c] = "removed")

\* the call the event loop is running keeps running: execute_code is not
\* cancelled (at most one call is in flight, see EventLoopFree)
FairSpec == Spec /\ WF_vars(\E c \in Calls : Progress(c))

TypeOK ==
    /\ docker_available \in BOOLEAN
    /\ \A c \in Calls : pc[c] \in {"idle", "mktemp", "run", "containers_run", "wait",
                                   "waiting", "logs", "stop", "returned", "raised"}
    /\ files \subseteq FileNames

\* ------------------------------------------------------------ properties
Returned(c) == pc[c] = "returned"

Supported == {"python", "javascript"}

\* dict.get(key): a missing key reads as None
Get(v) == IF v = Absent THEN PyNone ELSE v

TimeoutMessages == {TIMEOUT_5S, TIMEOUT_PLAIN}

BackendFaults == {"wait_failed", "logs_failed", "stop_failed"}

StartsWith(t, prefix) ==
    Len(t) >= Len(prefix) /\ SubSeq(t, 1, Len(prefix)) = prefix

IsBlank(l) == \A i \in 1..Len(l) : l[i] \in Whitespace

HasNonBlankLine(t) == \E i \in 1..Len(Split(t)) : ~IsBlank(Split(t)[i])

\* the last line of t that is not blank
LastNonBlankLine(t) ==
    LET lines == Split(t)
        i == CHOOSE k \in 1..Len(lines) :
                 ~IsBlank(lines[k]) /\ \A m \in (k + 1)..Len(lines) : IsBlank(lines[m])
    IN  lines[i]

\* C1: in subprocess mode the temp file of a call no longer exists once the
\* call has returned, whatever the exit path
C1_TempFileRemovedSubprocess ==
    \A c \in Calls :
        (Returned(c) /\ ~docker_available /\ temp_file[c] # 0)
            => temp_file[c] \notin files

\* C2: in container mode the host temp file of a call no longer exists once
\* the call has returned, whatever the container did
C2_TempFileRemovedDocker ==
    \A c \in Calls :
        (Returned(c) /\ docker_available /\ temp_file[c] # 0)
            => temp_file[c] \notin files

\* C3: in subprocess mode, after a timed-out call has returned neither the
\* child nor a process the snippet spawned is alive
C3_NoProcessSurvivesTimeout ==
    \A c \in Calls :
        (Returned(c) /\ ~docker_available /\ "timeout" \in event[c])
            => (child[c] # "alive" /\ desc[c] # "alive")

\* C4: in container mode a timeout outcome is returned only after a stop was
\* issued, and no call returns while its container is still running
C4_NoContainerLeftRunning ==
    \A c \in Calls :
        (Returned(c) /\ docker_available) =>
            /\ container[c] # "running"
            /\ ("timeout" \in event[c] =>
                    event[c] \cap {"stopped", "stop_failed", "stop_notfound"} # {})

\* C5: execute_code never raises; unsupported language, missing runtime,
\* program error, timeout and backend failure come back as the error text of
\* the returned dict
C5_ErrorsReturnedAsData ==
    \A c \in Calls :
        /\ pc[c] # "raised"
        /\ (Returned(c) /\ event[c] \cap {"unsupported", "missing", "nonzero", "timeout",
                                          "start_failed", "wait_failed", "logs_failed",
                                          "stop_failed"} # {})
               => result[c].error.tag = "str"

\* a call whose container backend failed inside the bare except has returned
C5_Witness ==
    \E c \in Calls :
        /\ Returned(c)
        /\ "stop_failed" \in event[c]
        /\ result[c].error = PyStr(DOCKER_ERROR \o MSG_API)

\* C6: every returned dict has executed_successfully; True goes with no
\* error, False with a non-empty error text
C6_SucceededIffNoError ==
    \A c \in Calls :
        Returned(c) =>
            /\ result[c].executed_successfully.tag = "bool"
            /\ result[c].executed_successfully.b => Get(result[c].error) = PyNone
            /\ ~result[c].executed_successfully.b =>
                   (result[c].error.tag = "str" /\ result[c].error.s # <<>>)

\* C7: an unsupported language gives executed_successfully False and the
\* error "Unsupported language", with no temp file, process or container
C7_UnsupportedLanguage ==
    \A c \in Calls :
        (Returned(c) /\ language[c] \notin Supported) =>
            /\ result[c].executed_successfully = PyBool(FALSE)
            /\ result[c].error = PyStr(UNSUPPORTED_LANGUAGE)
            /\ temp_file[c] = 0
            /\ child[c] = "none"
            /\ container[c] = "none"

PYTHON_NOT_INSTALLED ==
    <<"P", "y", "t", "h", "o", "n", " ", "n", "o", "t", " ", "i", "n", "s", "t", "a", "l", "l", "e", "d">>

RuntimeNotInstalled(lang) ==
    IF lang = "python" THEN PYTHON_NOT_INSTALLED ELSE NODE_NOT_INSTALLED

\* C8: in subprocess mode a missing interpreter gives executed_successfully
\* False and the error "<Runtime> not installed", for python and javascript
C8_MissingRuntime ==
    \A c \in Calls :
        (Returned(c) /\ "missing" \in event[c]) =>
            /\ result[c].executed_successfully = PyBool(FALSE)
            /\ result[c].error = PyStr(RuntimeNotInstalled(language[c]))

\* C9: a backend failure while waiting, reading logs or stopping comes back
\* as a "Docker error: ..." dict, never as an execution timeout
C9_BackendFailureTagged ==
    \A c \in Calls :
        (Returned(c) /\ event[c] \cap BackendFaults # {}) =>
            /\ result[c].error.tag = "str"
            /\ StartsWith(result[c].error.s, DOCKER_ERROR)
            /\ result[c].error.s \notin TimeoutMessages

\* C10: in subprocess mode a nonzero exit gives executed_successfully False,
\* the captured stdout, the last non-blank line of stderr as error and the
\* line number parsed from stderr
C10_NonzeroExit ==
    \A c \in Calls :
        (Returned(c) /\ ~docker_available /\ "nonzero" \in event[c]) =>
            /\ result[c].executed_successfully = PyBool(FALSE)
            /\ result[c].output = PyStr(streams[c].stdout)
            /\ HasNonBlankLine(streams[c].stderr) =>
                   result[c].error = PyStr(LastNonBlankLine(streams[c].stderr))
            /\ Get(result[c].line) = extract_error_line(streams[c].stderr)

\* the snippet of call c ended with status 0 within the timeout:
\* subprocess.run returned returncode 0, or wait() returned StatusCode 0
ExitedZero(c) ==
    IF docker_available
    THEN exit_status[c] = 0 /\ event[c] \cap {"exit0", "logs_failed", "logs_notfound"} # {}
    ELSE "exit0" \in event[c]

\* C11: a call whose child or container exited with status 0 within the
\* timeout returns executed_successfully True, the captured output and no
\* error, in both modes (stated for calls whose backend did not fail)
C11_ZeroExit ==
    \A c \in Calls :
        (Returned(c) /\ ExitedZero(c) /\ event[c] \cap BackendFaults = {}) =>
            /\ result[c].executed_successfully = PyBool(TRUE)
            /\ result[c].output = PyStr(streams[c].stdout)
            /\ result[c].error = PyNone

DigitChar(d) ==
    CASE d = 0 -> "0" [] d = 1 -> "1" [] d = 2 -> "2" [] d = 3 -> "3"
      [] d = 4 -> "4" [] d = 5 -> "5" [] d = 6 -> "6" [] d = 7 -> "7"
      [] d = 8 -> "8" [] d = 9 -> "9"

\* the decimal digits of a natural number
RECURSIVE IntToStr(_)
IntToStr(k) ==
    IF k < 10 THEN <<DigitChar(k)>>
    ELSE IntToStr(k \div 10) \o <<DigitChar(k % 10)>>

TIMEOUT_OPEN ==
    <<"E", "x", "e", "c", "u", "t", "i", "o", "n", " ", "t", "i", "m", "e", "o", "u", "t", " ", "(">>

TIMEOUT_CLOSE ==
    <<"s", " ", "l", "i", "m", "i", "t", ")">>

\* "Execution timeout (<N>s limit)"
TimeoutMessage(N) == TIMEOUT_OPEN \o IntToStr(N) \o TIMEOUT_CLOSE

\* the call ran into the timeout and the timeout handler ran to its end
TimedOut(c) ==
    /\ "timeout" \in event[c]
    /\ docker_available => "stopped" \in event[c]

\* C12: a timed-out call returns executed_successfully False and the error
\* "Execution timeout (<N>s limit)" with N the configured timeout, for python
\* and javascript in both modes
C12_TimeoutMessage ==
    \A c \in Calls :
        (Returned(c) /\ TimedOut(c)) =>
            /\ result[c].executed_successfully = PyBool(FALSE)
            /\ result[c].error = PyStr(TimeoutMessage(timeout))

\* positions at which a call waits for its child process or its container
Waiting == {"run", "waiting"}

\* C13: while a call waits for its child process or container, the next
\* request can start its own execution
C13_ConcurrentStart ==
    \A c \in Calls, d \in Calls :
        (d = c + 1 /\ pc[c] \in Waiting /\ pc[d] = "idle") =>
            ENABLED (\E lang \in Languages : execute_code(d, lang))

\* the call ran its snippet to the end and read what it wrote
Completed(c) == Returned(c) /\ event[c] \cap {"exit0", "nonzero"} # {}

\* the dict the snippet of call c gives when it is the only one run
OutcomeAlone(c) ==
    CompletedResult(Fn(c), exit_status[c], streams[c].stdout, streams[c].stderr)

DockerPositions == {"containers_run", "wait", "waiting", "logs", "stop"}

\* C15: docker mode is selected exactly when the handshake in __init__
\* succeeded; after a failed handshake every call runs in subprocess mode and
\* nothing is asked of the docker backend
C15_ModeFallback ==
    /\ docker_available = (handshake = "ok")
    /\ handshake # "ok" =>
           \A c \in Calls :
               /\ pc[c] \notin DockerPositions
               /\ container[c] = "none"
               /\ result[c].mode \in {Absent, PyStr(MODE_SUBPROCESS)}

\* the backend was unreachable at startup and a call has run its snippet in a
\* subprocess
C15_Witness ==
    /\ handshake = "unreachable"
    /\ \E c \in Calls :
           /\ Returned(c)
           /\ "exit0" \in event[c]
           /\ child[c] = "exited"
           /\ result[c].mode = PyStr(MODE_SUBPROCESS)

ModeAtStartup == IF docker_available THEN MODE_DOCKER ELSE MODE_SUBPROCESS

\* C16: no step of any call changes docker_available, and a dict that names
\* a mode names the one chosen in __init__
C16_ModeFixed ==
    [][/\ docker_available' = docker_available
       /\ \A c \in Calls :
              (pc'[c] = "returned" /\ result'[c].mode # Absent)
                  => result'[c].mode = PyStr(ModeAtStartup)]_vars

\* in docker mode one call has ended in a backend error and another in a
\* timeout
C16_Witness ==
    /\ docker_available
    /\ \E c \in Calls, d \in Calls :
           /\ Returned(c) /\ "stop_failed" \in event[c]
           /\ Returned(d) /\ "timeout" \in event[d] /\ "stopped" \in event[d]

InFlight(c) == pc[c] \notin {"idle"} \cup Done

\* C17: whenever a call has been dispatched to a driver, eventually no call
\* is in flight, none has raised and every call that ran a driver has returned
\* a dict with executed_successfully set, also when its snippet never ends
C17_EventuallyReturns ==
    (\E c \in Calls : InFlight(c))
        ~> (\A c \in Calls :
                /\ pc[c] \in {"idle", "returned"}
                /\ (Returned(c) /\ language[c] \in Supported)
                       => result[c].executed_successfully.tag = "bool")

\* calls whose snippet never ended have returned, one in a container and
\* stopped, or one in a subprocess and killed
C17_Witness ==
    \E c \in Calls :
        /\ Returned(c)
        /\ "timeout" \in event[c]
        /\ result[c].error.s \in TimeoutMessages
        /\ (container[c] = "exited" \/ child[c] = "killed")

\* C18: a call whose temp file could not be created ends by raising to its
\* caller, not by returning a dict
C18_TempFileFailurePropagates ==
    \A c \in Calls :
        (pc[c] \in Done /\ "mktemp_failed" \in event[c]) => pc[c] = "raised"

\* C19: every dict execute_code returns has a mode, the one chosen in __init__
C19_ModeOnEveryPath ==
    \A c \in Calls : Returned(c) => result[c].mode = PyStr(ModeAtStartup)

\* what the container of call c sees under /app: the volume is
\* os.path.dirname(temp_file), the directory every call writes its file to
MountedDir(c) == files

\* C20: while the container of a call runs, the directory mounted into it
\* holds no file but that call's temp file
C20_MountOnlyOwnFile ==
    \A c \in Calls :
        container[c] = "running" => MountedDir(c) \subseteq {temp_file[c]}

\* C21: in subprocess mode a snippet that reads stdin ends at once as a
\* program error (non-zero exit), never in the timeout
C21_StdinReadFailsAtOnce ==
    \A c \in Calls :
        (Returned(c) /\ "reads_stdin" \in event[c])
            => /\ "nonzero" \in event[c]
               /\ "timeout" \notin event[c]
               /\ result[c].error.s \notin TimeoutMessages

\* ------------------------------------------------------------ the parsers
\* the error texts the parsers are tried on: up to MaxTokens pieces, each a
\* letter, a blank, a line break, a digit, "line " or "Line "
MaxTokens == 4

LINE_CAPITAL == <<"L", "i", "n", "e", " ">>

Tokens == {<<"a">>, <<" ">>, <<"\n">>, <<"1">>, <<"2">>, LINE_PREFIX, LINE_CAPITAL}

RECURSIVE Concat(_)
Concat(ts) == IF ts = <<>> THEN <<>> ELSE Head(ts) \o Concat(Tail(ts))

Texts == {Concat(ts) : ts \in UNION {[1..n -> Tokens] : n \in 0..MaxTokens}}

\* a sandbox in either mode on which execute_code was not called yet
SandboxIdle ==
    /\ docker_available \in BOOLEAN
    /\ handshake = IF docker_available THEN "ok" ELSE "no_module"
    /\ pc = [c \in Calls |-> "idle"]
    /\ language = [c \in Calls |-> "none"]
    /\ temp_file = [c \in Calls |-> 0]
    /\ files = {}
    /\ child = [c \in Calls |-> "none"]
    /\ desc = [c \in Calls |-> "none"]
    /\ container = [c \in Calls |-> "none"]
    /\ exit_status = [c \in Calls |-> 0]
    /\ streams = [c \in Calls |-> [stdout |-> T_empty, stderr |-> T_empty]]
    /\ result = [c \in Calls |-> EmptyDict]
    /\ event = [c \in Calls |-> {}]

ParserInit ==
    /\ SandboxIdle
    /\ logs \in Texts
    /\ parsed = NotParsed
    /\ LearnerInit

\* a python driver builds the dict of a snippet that ended with returncode
\* (StatusCode) and left logs on stderr (in the container logs), and the two
\* parsers are called on logs
ParseLogs ==
    /\ ~parsed.called
    /\ \E returncode \in {0, 1} :
           LET dict == CompletedResult(Driver("python", docker_available),
                                       returncode, logs, logs)
           IN  parsed' = [called |-> TRUE,
                          returncode |-> returncode,
                          summary |-> parse_python_error(logs),
                          line |-> extract_error_line(logs),
                          executed_successfully |-> dict.executed_successfully]
    /\ UNCHANGED <<docker_available, handshake, pc, language, temp_file, files, child,
                   desc, container, exit_status, streams, result, event, logs>>
    /\ UNCHANGED analyze_vars

ParserNext == ParseLogs

ParserSpec == ParserInit /\ [][ParserNext]_vars

\* C22: _parse_python_error returns the last non-blank line of its input (up
\* to surrounding blanks) when there is one, and "Unknown error" when the
\* input is empty or all blank
C22_ErrorSummary ==
    parsed.called =>
        IF HasNonBlankLine(logs)
        THEN Strip(parsed.summary) = Strip(LastNonBlankLine(logs))
        ELSE parsed.summary = UNKNOWN_ERROR

\* the positions of t where "line " and then a digit start
LineMarks(t) ==
    {i \in 1..Len(t) :
        /\ i + Len(LINE_PREFIX) <= Len(t)
        /\ \A k \in 1..Len(LINE_PREFIX) : t[i + k - 1] = LINE_PREFIX[k]
        /\ t[i + Len(LINE_PREFIX)] \in Digits}

\* the number written in t from position k on, read digit by digit
RECURSIVE NumberFrom(_, _, _)
NumberFrom(t, k, acc) ==
    IF k <= Len(t) /\ t[k] \in Digits
    THEN NumberFrom(t, k + 1, 10 * acc + DigitVal(t[k]))
    ELSE acc

FirstLineNumber(t) ==
    IF LineMarks(t) = {} THEN PyNone
    ELSE LET first == CHOOSE i \in LineMarks(t) : \A j \in LineMarks(t) : i <= j
         IN  PyInt(NumberFrom(t, first + Len(LINE_PREFIX), 0))

\* C23: _extract_error_line returns the number of the first "line <N>" of
\* the text and None when there is none, and the dict's executed_successfully
\* follows the return code alone, whatever the line parser found
C23_ErrorLine ==
    parsed.called =>
        /\ parsed.line = FirstLineNumber(logs)
        /\ parsed.executed_successfully = PyBool(parsed.returncode = 0)

\* a failed snippet whose text names two different line numbers: the dict
\* has the first one
C23_Witness ==
    /\ parsed.called
    /\ parsed.returncode = 1
    /\ parsed.executed_successfully = PyBool(FALSE)
    /\ \E i, j \in LineMarks(logs) :
           /\ i < j
           /\ NumberFrom(logs, i + Len(LINE_PREFIX), 0)
                  # NumberFrom(logs, j + Len(LINE_PREFIX), 0)
           /\ parsed.line = PyInt(NumberFrom(logs, i + Len(LINE_PREFIX), 0))

\* C24: in docker mode, once wait() has returned StatusCode 0 and the daemon
\* itself never failed, the call returns the success dict with the logs,
\* never a timeout or a "Docker error", wherever AutoRemove falls between the
\* call's wait, logs and unlink
C24_AutoRemoveRace ==
    \A c \in Calls :
        (/\ Returned(c)
         /\ docker_available
         /\ ExitedZero(c)
         /\ "timeout" \notin event[c]
         /\ event[c] \cap BackendFaults = {})
            => /\ result[c] = CompletedResult(Fn(c), 0, streams[c].stdout, T_empty)
               /\ result[c].error.s \notin TimeoutMessages
               /\ ~StartsWith(result[c].error.s, DOCKER_ERROR)
               /\ container[c] \in {"exited", "removed"}

\* ------------------------------------------------- the /analyze handler

\* str.lower() on the letters that occur in the texts of the model

UPPERCASE ==
    <<"A", "B", "C", "D", "E", "F", "G", "H", "I", "J", "K", "L", "M", "N", "O", "P", "Q", "R", "S", "T", "U", "V", "W", "X", "Y", "Z">>

LOWERCASE ==
    <<"a", "b", "c", "d", "e", "f", "g", "h", "i", "j", "k", "l", "m", "n", "o", "p", "q", "r", "s", "t", "u", "v", "w", "x", "y", "z">>

UpperLetters == {UPPERCASE[i] : i \in 1..Len(UPPERCASE)}

LowerOf ==
    [ch \in UpperLetters |->
        LOWERCASE[CHOOSE i \in 1..Len(UPPERCASE) : UPPERCASE[i] = ch]]

LowerChar(ch) == IF ch \in UpperLetters THEN LowerOf[ch] ELSE ch

Lower(t) == [i \in 1..Len(t) |-> LowerChar(t[i])]

\* kw in t
Contains(t, kw) ==
    \E i \in 1..(Len(t) - Len(kw) + 1) : \A k \in 1..Len(kw) : t[i + k - 1] = kw[k]

\* the words of the if / elif chain on the sandbox error

KW_TIMEOUT ==
    <<"t", "i", "m", "e", "o", "u", "t">>

KW_INTERACTIVE ==
    <<"i", "n", "t", "e", "r", "a", "c", "t", "i", "v", "e">>

KW_INPUT ==
    <<"i", "n", "p", "u", "t">>

KW_UNSUPPORTED ==
    <<"u", "n", "s", "u", "p", "p", "o", "r", "t", "e", "d">>

KW_MEMORY ==
    <<"m", "e", "m", "o", "r", "y">>

KW_EXECUTION_HALTED ==
    <<"e", "x", "e", "c", "u", "t", "i", "o", "n", " ", "h", "a", "l", "t", "e", "d">>

KW_INFINITE_LOOP ==
    <<"i", "n", "f", "i", "n", "i", "t", "e", " ", "l", "o", "o", "p">>

KW_SEGMENTATION_FAULT ==
    <<"s", "e", "g", "m", "e", "n", "t", "a", "t", "i", "o", "n", " ", "f", "a", "u", "l", "t">>

KW_STACK_OVERFLOW ==
    <<"s", "t", "a", "c", "k", " ", "o", "v", "e", "r", "f", "l", "o", "w">>

KW_OUT_OF_MEMORY ==
    <<"o", "u", "t", " ", "o", "f", " ", "m", "e", "m", "o", "r", "y">>

KW_RECURSION_LIMIT ==
    <<"r", "e", "c", "u", "r", "s", "i", "o", "n", " ", "l", "i", "m", "i", "t">>

KW_IMPORT ==
    <<"i", "m", "p", "o", "r", "t">>

KW_MODULE ==
    <<"m", "o", "d", "u", "l", "e">>

\* stderr (or container logs) of snippets that fail

T_module_not_found ==
    <<"M", "o", "d", "u", "l", "e", "N", "o", "t", "F", "o", "u", "n", "d", "E", "r", "r", "o", "r", ":", " ", "N", "o", " ", "m", "o", "d", "u", "l", "e", " ", "n", "a", "m", "e", "d", " ", "'", "x", "'", "\n">>

T_import_error ==
    <<"I", "m", "p", "o", "r", "t", "E", "r", "r", "o", "r", ":", " ", "x", "\n">>

T_memory_error ==
    <<"M", "e", "m", "o", "r", "y", "E", "r", "r", "o", "r", "\n">>

\* the if / elif chain on the lower-cased sandbox error: TRUE when a branch
\* with "pass" is taken. ("import" or "module") is the string "import"
SkipsError(error_msg) ==
    \/ Contains(error_msg, KW_TIMEOUT)
    \/ Contains(error_msg, KW_INTERACTIVE) \/ Contains(error_msg, KW_INPUT)
    \/ Contains(error_msg, KW_UNSUPPORTED)
    \/ Contains(error_msg, KW_MEMORY)
    \/ Contains(error_msg, KW_EXECUTION_HALTED)
    \/ Contains(error_msg, KW_INFINITE_LOOP)
    \/ Contains(error_msg, KW_SEGMENTATION_FAULT)
    \/ Contains(error_msg, KW_STACK_OVERFLOW)
    \/ Contains(error_msg, KW_OUT_OF_MEMORY)
    \/ Contains(error_msg, KW_RECURSION_LIMIT)
    \/ Contains(error_msg, KW_TIMEOUT)
    \/ Contains(error_msg, StrOr(KW_IMPORT, KW_MODULE))

NON_EXECUTABLE_LANGUAGES ==
    {"html", "css", "xml", "json", "yaml", "yml", "markdown", "md", "sql",
     "plaintext", "text"}

\* every language is run in the sandbox
IsExecutableAlways(detected_language) == TRUE

\* is_executable
IsExecutable(detected_language) == detected_language \notin NON_EXECUTABLE_LANGUAGES

\* detected languages for which the handler answers 400
DetectionFailed == {"error", "failed", "none"}

\* what gemini.analyze_code reports as detected_language
DetectedLanguages == {"python", "cpp", "HTML", "none"}

\* str.lower() on the language names above
LowerName(name) == IF name = "HTML" THEN "html" ELSE name

PHRASE_NOT_A_LANGUAGE ==
    <<"n", "o", "t", " ", "a", " ", "p", "r", "o", "g", "r", "a", "m", "m", "i", "n", "g", " ", "l", "a", "n", "g", "u", "a", "g", "e">>

PHRASE_CANNOT_BE_COMPILED ==
    <<"c", "a", "n", "n", "o", "t", " ", "b", "e", " ", "c", "o", "m", "p", "i", "l", "e", "d">>

PHRASE_CANNOT_BE_EXECUTED ==
    <<"c", "a", "n", "n", "o", "t", " ", "b", "e", " ", "e", "x", "e", "c", "u", "t", "e", "d">>

M_unused ==
    <<"x", " ", "i", "s", " ", "u", "n", "u", "s", "e", "d">>

M_markup ==
    <<"H", "T", "M", "L", " ", "c", "a", "n", "n", "o", "t", " ", "b", "e", " ", "e", "x", "e", "c", "u", "t", "e", "d">>

M_crash ==
    <<"D", "i", "v", "i", "s", "i", "o", "n", " ", "b", "y", " ", "z", "e", "r", "o">>

\* the issues of the "issues" list of gemini.analyze_code: dicts from the
\* model's JSON; one without "message" does not validate as an Issue
GeminiIssue(type, message, valid) ==
    [type |-> type, message |-> message, line |-> PyInt(1), fix |-> PyNone,
     severity |-> "warning", origin |-> "gemini", valid |-> valid]

G_unused == GeminiIssue("Unused Variable", M_unused, TRUE)

G_crash == GeminiIssue("Runtime Error", M_crash, TRUE)

G_markup == GeminiIssue("Not Executable", M_markup, TRUE)

G_malformed == GeminiIssue("Style", <<>>, FALSE)

GeminiIssueLists == {<<>>, <<G_unused, G_crash>>, <<G_markup>>, <<G_malformed>>}

\* the snippets sent to /analyze (request.code)
Codes == {1, 2}

\* hashlib.md5(code.encode()).hexdigest()[:8]: a name for the snippet
code_hash(code) == code

\* ------------------------------------------------------ PatternLearner
\* every issue list is counted, also an empty one
learn_pattern_counts_all(ps, st, code, issues) ==
    [patterns |-> IF issues = <<>> THEN ps
                  ELSE Append(ps, [code_hash |-> code_hash(code),
                                   issue_types |-> [i \in 1..Len(issues) |-> issues[i].type],
                                   issue_count |-> Len(issues),
                                   fixes_applied |->
                                       SelectSeq([i \in 1..Len(issues) |-> issues[i].fix],
                                                 LAMBDA fix : fix # PyNone)]),
     stats |-> [patterns_learned |-> st.patterns_learned + (IF issues = <<>> THEN 0 ELSE 1),
                total_analyzed |-> st.total_analyzed + 1,
                total_issues_found |-> st.total_issues_found + Len(issues)]]

\* learn_pattern: patterns and stats after the call
learn_pattern(ps, st, code, issues) ==
    IF issues = <<>>
    THEN [patterns |-> ps, stats |-> st]
    ELSE [patterns |-> Append(ps, [code_hash |-> code_hash(code),
                                   issue_types |-> [i \in 1..Len(issues) |-> issues[i].type],
                                   issue_count |-> Len(issues),
                                   fixes_applied |->
                                       SelectSeq([i \in 1..Len(issues) |-> issues[i].fix],
                                                 LAMBDA fix : fix # PyNone)]),
          stats |-> [patterns_learned |-> st.patterns_learned + 1,
                     total_analyzed |-> st.total_analyzed + 1,
                     total_issues_found |-> st.total_issues_found + Len(issues)]]

\* similarities are kept in hundredths: 0.5 is 50, the threshold 0.7 is 70
SIMILARITY_THRESHOLD == 70

\* a similarity above the threshold
calculate_similarity_high(code, pattern) == 80

\* _calculate_similarity: the placeholder
calculate_similarity(code, pattern) == 50

SIMILAR_TO ==
    <<"S", "i", "m", "i", "l", "a", "r", " ", "t", "o", " ">>

PREVIOUS_ISSUES ==
    <<" ", "p", "r", "e", "v", "i", "o", "u", "s", " ", "i", "s", "s", "u", "e", "s">>

\* self.patterns[-100:]
Last100(ps) == SubSeq(ps, IF Len(ps) > 100 THEN Len(ps) - 99 ELSE 1, Len(ps))

get_similar_issues(ps, code) ==
    LET similar ==
            SelectSeq(Last100(ps),
                      LAMBDA pattern :
                          calculate_similarity(code, pattern) > SIMILARITY_THRESHOLD)
    IN  [i \in 1..Len(similar) |->
            [name |-> similar[i].code_hash,
             description |-> SIMILAR_TO \o IntToStr(similar[i].issue_count)
                                 \o PREVIOUS_ISSUES,
             confidence |-> calculate_similarity(code, similar[i]),
             fix |-> IF similar[i].fixes_applied # <<>>
                     THEN similar[i].fixes_applied[1] ELSE PyNone]]

\* ------------------------------------------------------------ analyze_code
MaxRequests == 2

\* what the snippets sent to /analyze do when they run: exit code, stdout
\* (container logs) and stderr
AnalyzedSnippets ==
    {[rc |-> 0, out |-> T_hello, err |-> T_empty],
     [rc |-> 1, out |-> T_trace, err |-> T_trace],
     [rc |-> 1, out |-> T_module_not_found, err |-> T_module_not_found],
     [rc |-> 1, out |-> T_import_error, err |-> T_import_error],
     [rc |-> 1, out |-> T_memory_error, err |-> T_memory_error]}

\* the dicts sandbox.execute_code(request.code, lang) can return
ExecuteCodeOutcomes(lang) ==
    LET fn == Driver(lang, docker_available)
    IN  IF fn = "none" THEN {UnsupportedResult}
        ELSE {CompletedResult(fn, s.rc, s.out, s.err) : s \in AnalyzedSnippets}
                 \cup {TimeoutResult(fn),
                       OuterExceptResult(fn, IF IsDocker(fn) THEN MSG_NOTFOUND
                                                             ELSE MSG_ENOSPC)}

\* the placeholder of the skipped execution
SkippedSandboxResult == [EmptyDict EXCEPT !.output = PyNone, !.error = PyNone]

\* truth value of sandbox_result.get("error")
Truthy(v) == v.tag = "str" /\ v.s # <<>>

\* the Runtime Error issue of the sandbox branch, or nothing
SandboxIssues(is_executable, sandbox_result, fix) ==
    IF /\ is_executable
       /\ Truthy(Get(sandbox_result.error))
       /\ ~SkipsError(Lower(sandbox_result.error.s))
    THEN <<[type |-> "Runtime Error", message |-> sandbox_result.error.s,
            line |-> Get(sandbox_result.line), fix |-> fix,
            severity |-> "error", origin |-> "sandbox", valid |-> TRUE]>>
    ELSE <<>>

\* what gemini.suggest_fix can return where it is called: a fix or None
SuggestedFixes(is_executable, sandbox_result) ==
    IF SandboxIssues(is_executable, sandbox_result, PyNone) # <<>>
    THEN {PyNone, PyStr(<<"f">>)}
    ELSE {PyNone}

\* the "continue" of the loop over the gemini issues
Misleading(is_executable, issue) ==
    /\ ~is_executable
    /\ \/ Contains(Lower(issue.message), PHRASE_NOT_A_LANGUAGE)
       \/ Contains(Lower(issue.message), PHRASE_CANNOT_BE_COMPILED)
       \/ Contains(Lower(issue.message), PHRASE_CANNOT_BE_EXECUTED)

\* the issues added for the patterns get_similar_issues returned
PatternIssues(learned_patterns) ==
    LET confident == SelectSeq(learned_patterns,
                               LAMBDA pattern : pattern.confidence > SIMILARITY_THRESHOLD)
    IN  [i \in 1..Len(confident) |->
            [type |-> "Known Pattern", message |-> confident[i].description,
             line |-> PyNone, fix |-> confident[i].fix,
             severity |-> "warning", origin |-> "pattern", valid |-> TRUE]]

Answer(status, lang, is_executable, invocations, sandbox_result, issues, names) ==
    [status |-> status, detected_language |-> lang, is_executable |-> is_executable,
     sandbox_invocations |-> invocations, sandbox_result |-> sandbox_result,
     issues |-> issues,
     executionResult |-> IF is_executable /\ status = 200
                         THEN [is_none |-> FALSE, dict |-> sandbox_result]
                         ELSE [is_none |-> TRUE, dict |-> EmptyDict],
     patterns |-> names]

\* one /analyze request from its first line to its answer: 400 when the
\* language detection failed, 500 when a gemini issue does not validate as an
\* Issue (the sandbox has run by then), else the AnalysisResult. fixedCode
\* and confidence are not modelled
analyze_code ==
    /\ handled < MaxRequests
    /\ handled' = handled + 1
    /\ \E code \in Codes, detected \in DetectedLanguages :
           LET detected_language == LowerName(detected)
               is_executable == IsExecutable(detected_language)
           IN  IF detected_language \in DetectionFailed
               THEN /\ response' = Answer(400, detected_language, FALSE, 0,
                                          EmptyDict, <<>>, <<>>)
                    /\ UNCHANGED <<patterns, stats>>
               ELSE \E gemini_issues \in GeminiIssueLists,
                          sandbox_result \in
                              (IF is_executable
                               THEN ExecuteCodeOutcomes(detected_language)
                               ELSE {SkippedSandboxResult}) :
                        \E fix \in SuggestedFixes(is_executable, sandbox_result) :
                         LET invocations == IF is_executable THEN 1 ELSE 0
                             learned_patterns == get_similar_issues(patterns, code)
                             kept == SelectSeq(gemini_issues,
                                               LAMBDA issue :
                                                   ~Misleading(is_executable, issue))
                             issues == SandboxIssues(is_executable, sandbox_result, fix)
                                           \o kept \o PatternIssues(learned_patterns)
                             learned == learn_pattern(patterns, stats, code, issues)
                         IN  IF \E i \in 1..Len(kept) : ~kept[i].valid
                             THEN /\ response' =
                                         Answer(500, detected_language, is_executable,
                                                invocations, sandbox_result, <<>>, <<>>)
                                  /\ UNCHANGED <<patterns, stats>>
                             ELSE /\ patterns' = learned.patterns
                                  /\ stats' = learned.stats
                                  /\ response' =
                                         Answer(200, detected_language, is_executable,
                                                invocations, sandbox_result, issues,
                                                [i \in 1..Len(learned_patterns) |->
                                                    learned_patterns[i].name])
    /\ UNCHANGED <<docker_available, handshake, pc, language, temp_file, files, child,
                   desc, container, exit_status, streams, result, event>>
    /\ UNCHANGED parser_vars

AnalyzeInit ==
    /\ SandboxIdle
    /\ logs = T_empty
    /\ parsed = NotParsed
    /\ LearnerInit

AnalyzeNext == analyze_code

AnalyzeSpec == AnalyzeInit /\ [][AnalyzeNext]_vars

\* the words the claim lists
ClaimedSkipKeywords ==
    {KW_TIMEOUT, KW_INTERACTIVE, KW_INPUT, KW_UNSUPPORTED, KW_MEMORY,
     KW_EXECUTION_HALTED, KW_INFINITE_LOOP, KW_SEGMENTATION_FAULT,
     KW_STACK_OVERFLOW, KW_OUT_OF_MEMORY, KW_RECURSION_LIMIT, KW_IMPORT, KW_MODULE}

RuntimeErrorReported ==
    \E i \in 1..Len(response.issues) : response.issues[i].origin = "sandbox"

\* C25: an answered request whose sandbox returned an error has a Runtime
\* Error issue from the sandbox exactly when the lower-cased error contains
\* none of the thirteen skip words
C25_SkipKeywords ==
    (/\ response.status = 200
     /\ response.is_executable
     /\ Truthy(Get(response.sandbox_result.error)))
        => (RuntimeErrorReported
                <=> \A kw \in ClaimedSkipKeywords :
                        ~Contains(Lower(response.sandbox_result.error.s), kw))

\* what the claim says of a request, given the language the handler saw
SandboxGate ==
    IF response.detected_language \in NON_EXECUTABLE_LANGUAGES
    THEN /\ response.sandbox_invocations = 0
         /\ ~RuntimeErrorReported
         /\ response.executionResult.is_none
    ELSE /\ response.sandbox_invocations = 1
         /\ response.executionResult = [is_none |-> FALSE, dict |-> response.sandbox_result]

\* C26 as stated: every handled request obeys the gate, whatever language
\* was detected
C26_SandboxGateAnyLanguage == response.status # 0 => SandboxGate

\* C26: a request that is answered with an AnalysisResult obeys the gate; a
\* request whose language detection failed is answered 400 without the
\* sandbox; no request uses the sandbox more than once, and none uses it
\* for a non-executable language
C26_SandboxGate ==
    /\ response.status = 200 => SandboxGate
    /\ response.detected_language \in DetectionFailed =>
           /\ response.status \in {0, 400}
           /\ response.sandbox_invocations = 0
    /\ response.status = 400 => response.detected_language \in DetectionFailed
    /\ response.sandbox_invocations <= 1
    /\ response.detected_language \in NON_EXECUTABLE_LANGUAGES =>
           response.sandbox_invocations = 0

\* a request for markup was answered with the issues gemini found and no
\* execution result
C26_Witness ==
    /\ response.status = 200
    /\ response.detected_language = "html"
    /\ response.sandbox_invocations = 0
    /\ response.executionResult.is_none
    /\ response.issues # <<>>

RECURSIVE SumIssueCounts(_)
SumIssueCounts(ps) ==
    IF ps = <<>> THEN 0 ELSE Head(ps).issue_count + SumIssueCounts(Tail(ps))

\* C27: the three counters agree with the stored patterns after every
\* request, and a request that ends with no issue (learn_pattern called with
\* an empty list) leaves the patterns and the counters as they were
C27_LearnerCounters ==
    [][/\ stats'.patterns_learned = Len(patterns')
       /\ stats'.total_analyzed = Len(patterns')
       /\ stats'.total_issues_found = SumIssueCounts(patterns')
       /\ (response'.status = 200 /\ response'.issues = <<>>)
              => (patterns' = patterns /\ stats' = stats)
       /\ (response'.status = 200 /\ response'.issues # <<>>)
              => /\ Len(patterns') = Len(patterns) + 1
                 /\ patterns'[Len(patterns')].issue_count = Len(response'.issues)]_vars

\* a pattern with several issues is stored, and the request after it ended
\* with no issue
C27_Witness ==
    /\ handled = 2
    /\ Len(patterns) = 1
    /\ patterns[1].issue_count > 1
    /\ stats.total_issues_found = patterns[1].issue_count
    /\ response.status = 200
    /\ response.issues = <<>>

\* C28: whatever patterns were learned, get_similar_issues finds nothing for
\* any snippet, so no answer lists a pattern or carries an issue built from
\* one
C28_NoKnownPattern ==
    /\ \A code \in Codes : get_similar_issues(patterns, code) = <<>>
    /\ response.patterns = <<>>
    /\ \A i \in 1..Len(response.issues) :
           /\ response.issues[i].origin # "pattern"
           /\ response.issues[i].type # "Known Pattern"

\* the same snippet was analysed twice with issues: its pattern was stored
\* the first time, and the second answer still lists no pattern
C28_Witness ==
    /\ Len(patterns) = 2
    /\ patterns[1].code_hash = patterns[2].code_hash
    /\ response.status = 200
    /\ response.issues # <<>>
    /\ response.patterns = <<>>

====
